---- MODULE Spec2Model ----
\* A model of the smalloc allocator (src/src/smalloc.c): the block
\* allocator smalloc, the page-group allocator smalloc2 and the helpers
\* they call.  Memory is modelled at the level of the header objects the
\* allocator writes (block, page-group and chunk headers), keyed by their
\* byte address; size_t and pointer arithmetic wrap at 2^SizeBits.
EXTENDS Integers, Sequences, FiniteSets, TLC

\* ---------------------------------------------------------------- bounds
\* Width of size_t and of a pointer in bits (64 in the build; the model
\* keeps the wrap-around but at a width TLC can enumerate).
SizeBits == 16
\* Number of pages of address space the Page Source can hand out.
NumPages == 4
\* Number of calls to the public entry points in one run.
MaxCalls == 3

\* ------------------------------------------------------- program constants
\* sysconf(_SC_PAGESIZE)
PAGE_SIZE == 4096
\* sizeof(struct _smalloc_chunk_t): void*, size_t, unsigned (+pad), pointer
CHUNK_HDR == 32
\* sizeof(struct _smalloc_pagegroup_t): void*, 3 * size_t, 2 pointers
PGROUP_HDR == 48
\* sizeof(struct _smalloc_block_t): size_t, unsigned (+pad), pointer
BLOCK_HDR == 24
SMALLOC_SMALLEST_PAGE_GROUP == 1

NULL == 0
SIZE_MOD == 2 ^ SizeBits
SIZE_MAX == SIZE_MOD - 1
\* mmap(2)'s failure value, (void *) -1
MAP_FAILED == SIZE_MOD - 1

\* size_t / pointer addition, subtraction and multiplication
Add(a, b) == (a + b) % SIZE_MOD
Sub(a, b) == (a - b + SIZE_MOD) % SIZE_MOD
Mul(a, b) == (a * b) % SIZE_MOD

\* Request sizes tried by the callers.  SIZE_MAX - 31 makes
\* size + sizeof(chunk header) wrap to 0 and, in smalloc, the rounded block
\* length wrap to 0; SIZE_MAX makes size + sizeof(block header) wrap.
\* (Sizes whose wrapped chunk step is 1..31 would make chunk headers overlap
\* byte-wise; the object-level memory below does not represent that.)
SmallocSizes == {200, 4072, 4073, SIZE_MAX - 31, SIZE_MAX}
Smalloc2Sizes == {10, 489, 4000, 8112, SIZE_MAX - 31}

VARIABLES
    ready,      \* _info.ready
    pagesize,   \* _info.pagesize
    head,       \* _info.head
    pglist,     \* _info.pglist
    mapped,     \* live mappings of the Page Source: base address -> length
    blocks,     \* block headers in memory: address -> _smalloc_block_t
    groups,     \* page-group headers in memory: address -> _smalloc_pagegroup_t
    chunks,     \* chunk headers in memory: address -> _smalloc_chunk_t
    pc,         \* "idle" | "crashed" (SIGSEGV) | "hang" (endless loop)
    ret,        \* value returned by the last call
    op,         \* what the last call was and what it met
    pa,         \* arguments and result of the last _pages_alloc call
    allocs,     \* the non-NULL pointers handed out so far, in order
    ncalls      \* number of calls made

vars == <<ready, pagesize, head, pglist, mapped, blocks, groups, chunks,
          pc, ret, op, pa, allocs, ncalls>>

\* ------------------------------------------------------------ memory
EmptyMem == [a \in {} |-> 0]

\* *a = r
Store(f, a, r) == [x \in (DOMAIN f) \cup {a} |-> IF x = a THEN r ELSE f[x]]

MappedPages(m) ==
    UNION {{b \div PAGE_SIZE + i : i \in 0 .. (m[b] \div PAGE_SIZE) - 1} : b \in DOMAIN m}

\* every byte of [a, a + n) lies in a live mapping
IsMapped(m, a, n) ==
    /\ a + n <= SIZE_MOD
    /\ \A p \in (a \div PAGE_SIZE) .. ((a + n - 1) \div PAGE_SIZE) : p \in MappedPages(m)

\* base addresses at which the Page Source can place a mapping of len bytes
MmapBases(m, len) ==
    IF len = 0 \/ len % PAGE_SIZE # 0 THEN {}
    ELSE {b * PAGE_SIZE : b \in {q \in 1 .. NumPages :
              /\ q + (len \div PAGE_SIZE) - 1 <= NumPages
              /\ \A i \in 0 .. (len \div PAGE_SIZE) - 1 : (q + i) \notin MappedPages(m)}}

\* mmap(NULL, len, ...): a fresh zero-filled mapping, or MAP_FAILED when the
\* OS declines (which it may always do, and must for len = 0)
Mmap(m, len) == MmapBases(m, len) \cup {MAP_FAILED}

\* ------------------------------------------------- pure helper computations
\* the rounding left out: the length is passed on as computed
RoundToPage_unrounded(len, psz) == len

\* smalloc's rounding of the block length up to a page boundary
RoundToPage(len, psz) ==
    LET result == len % psz
    IN  IF result # 0 THEN Add(len, psz - result) ELSE len

\* The length check of _smalloc_osalloc: TRUE when the length is passed on
\* to mmap, FALSE when NULL is returned without calling it.
_smalloc_osalloc(len, psz) == len % psz = 0

\* _smalloc_append(list, block): copies the header of `block` (not of
\* `list`) into a local, recurses while that copy has a successor, then
\* assigns the local copy's next.  Returns the list node unchanged and 0.
RECURSIVE _smalloc_append(_, _, _)
_smalloc_append(list, blk, bl) ==
    LET header == bl[blk]
    IN  IF header.next # NULL
        THEN _smalloc_append(header.next, blk, bl)
        ELSE [ret |-> 0, list |-> list]

\* The page arithmetic of _pages_alloc: the mapping length and page count.
_pages_alloc(size, pcount, psz) ==
    LET adjusted == Add(Add(size, PGROUP_HDR), CHUNK_HDR)
    IN  IF Mul(pcount, psz) >= adjusted
        THEN [len |-> Mul(pcount, psz), npages |-> pcount]
        ELSE LET len == Add(Mul(psz, adjusted \div psz), psz)
             IN  [len |-> len, npages |-> len \div psz]

_pgroup_fits(g, size) == g.bytesfree >= Add(size, CHUNK_HDR)

\* `chunk + sizeof(struct _smalloc_chunk_t)` on a struct _smalloc_chunk_t *:
\* the addend counts elements, so the address moves by n * sizeof(*chunk).
ChunkPtrAdd(chunk, n) == Add(chunk, Mul(n, CHUNK_HDR))

\* the while loop of smalloc2: first group of the chain that fits, or NULL
RECURSIVE FirstFit(_, _, _)
FirstFit(pg, size, gs) ==
    IF pg = NULL THEN NULL
    ELSE IF _pgroup_fits(gs[pg], size) THEN pg
    ELSE FirstFit(gs[pg].next, size, gs)

\* the while loop of _pgroup_reserve: the last chunk of the list, or -1
\* when the list is cyclic and the loop never ends
RECURSIVE LastChunk(_, _, _)
LastChunk(c, ch, fuel) ==
    IF ch[c].next = NULL THEN c
    ELSE IF fuel = 0 THEN -1
    ELSE LastChunk(ch[c].next, ch, fuel - 1)

\* ------------------------------------------------------------ initial state
\* static struct _smalloc_info _info = {0}; nothing mapped, nothing called
NoOp == [name |-> "none", size |-> 0, mm |-> "none", fit |-> "none",
         badwrite |-> FALSE, supply |-> FALSE, len |-> 0]
NoPa == [called |-> FALSE, size |-> 0, pcount |-> 0, npages |-> 0, len |-> 0]

Init ==
    /\ ready = FALSE
    /\ pagesize = 0
    /\ head = [len |-> 0, freed |-> 0, next |-> NULL]
    /\ pglist = NULL
    /\ mapped = EmptyMem
    /\ blocks = EmptyMem
    /\ groups = EmptyMem
    /\ chunks = EmptyMem
    /\ pc = "idle"
    /\ ret = NULL
    /\ op = NoOp
    /\ pa = NoPa
    /\ allocs = <<>>
    /\ ncalls = 0

\* a header of n bytes at address a overwrites the block headers it overlaps
Clobber(bl, a, n) ==
    [b \in {x \in DOMAIN bl : x + BLOCK_HDR <= a \/ a + n <= x} |-> bl[b]]

\* ------------------------------------------------------------------ smalloc
\* _smalloc_init (run when !_info.ready) only sets pagesize and ready and
\* returns 0, so smalloc goes on to the mapping in every case.
smalloc(size) ==
    /\ pc = "idle"
    /\ ncalls < MaxCalls
    /\ ncalls' = ncalls + 1
    /\ ready' = TRUE
    /\ pagesize' = (IF ready THEN pagesize ELSE PAGE_SIZE)
    /\ LET psz  == pagesize'
           hlen == RoundToPage(Add(size, BLOCK_HDR), psz)
           call == [NoOp EXCEPT !.name = "smalloc", !.size = size]
       IN  IF ~_smalloc_osalloc(hlen, psz)
           THEN \* _smalloc_osalloc returned NULL without mapping
                /\ ret' = NULL
                /\ op' = call
                /\ UNCHANGED <<head, pglist, mapped, blocks, groups, chunks,
                               pc, pa, allocs>>
           ELSE \E mem \in Mmap(mapped, hlen) :
                IF mem = MAP_FAILED
                THEN \* mem != NULL: ptr->len is stored through (void *) -1
                     /\ pc' = "crashed"
                     /\ op' = [call EXCEPT !.mm = "failed", !.badwrite = TRUE,
                                            !.len = hlen]
                     /\ UNCHANGED <<head, pglist, mapped, blocks, groups,
                                    chunks, ret, pa, allocs>>
                ELSE LET bl1 == Store(blocks, mem,
                                   [len |-> hlen, freed |-> 0, next |-> NULL])
                         app == _smalloc_append(head, mem, bl1)
                     IN  /\ mapped' = Store(mapped, mem, hlen)
                         /\ blocks' = bl1
                         /\ head' = app.list
                         /\ op' = [call EXCEPT !.mm = "granted", !.len = hlen]
                         /\ IF app.ret # 0
                            THEN /\ ret' = NULL
                                 /\ allocs' = allocs
                            ELSE /\ ret' = Add(mem, BLOCK_HDR)
                                 /\ allocs' = Append(allocs,
                                      [by |-> "smalloc", ptr |-> Add(mem, BLOCK_HDR),
                                       size |-> size, hdr |-> mem,
                                       base |-> mem, len |-> hlen])
                         /\ UNCHANGED <<pglist, groups, chunks, pc, pa>>

\* ----------------------------------------------------------------- smalloc2
\* First call with !_info.ready: _smalloc_init_(size).  _pages_alloc maps
\* the group and fills its header through the mmap result without testing
\* it; _smalloc_init_ then makes the first chunk, and smalloc2 returns
\* _info.pglist->chunks->ptr.
smalloc2_init(size) ==
    /\ pc = "idle"
    /\ ncalls < MaxCalls
    /\ ~ready
    /\ ncalls' = ncalls + 1
    /\ pagesize' = PAGE_SIZE
    /\ LET psz  == pagesize'
           calc == _pages_alloc(size, SMALLOC_SMALLEST_PAGE_GROUP, psz)
           call == [NoOp EXCEPT !.name = "smalloc2", !.size = size, !.fit = "init"]
       IN  /\ pa' = [called |-> TRUE, size |-> size,
                     pcount |-> SMALLOC_SMALLEST_PAGE_GROUP,
                     npages |-> calc.npages, len |-> calc.len]
           /\ \E r \in Mmap(mapped, calc.len) :
                IF r = MAP_FAILED
                THEN \* pg->top = ... is stored through (void *) -1
                     /\ pc' = "crashed"
                     /\ op' = [call EXCEPT !.mm = "failed", !.badwrite = TRUE,
                                            !.len = calc.len]
                     /\ UNCHANGED <<ready, head, pglist, mapped, blocks,
                                    groups, chunks, ret, allocs>>
                ELSE LET chk        == Add(r, PGROUP_HDR)
                         chunk_size == Add(size, CHUNK_HDR)
                         hdr == [ptr |-> ChunkPtrAdd(chk, CHUNK_HDR), len |-> size,
                                 freed |-> 0, next |-> NULL]
                         pg  == [top |-> Add(chk, chunk_size),
                                 npages |-> calc.npages,
                                 lenbytes |-> 0,
                                 bytesfree |-> Sub(Mul(calc.npages, psz), PGROUP_HDR),
                                 chunks |-> chk,
                                 next |-> NULL]
                     IN  /\ mapped' = Store(mapped, r, calc.len)
                         /\ groups' = Store(groups, r, pg)
                         /\ chunks' = Store(chunks, chk, hdr)
                         /\ pglist' = r
                         /\ ready' = TRUE
                         /\ ret' = hdr.ptr
                         /\ op' = [call EXCEPT !.mm = "granted", !.len = calc.len]
                         /\ allocs' = Append(allocs,
                                [by |-> "smalloc2", ptr |-> hdr.ptr, size |-> size,
                                 hdr |-> chk, base |-> r, len |-> calc.len])
                         /\ UNCHANGED <<head, blocks, pc>>

\* Later calls: walk the chain for a group that fits; NULL when there is
\* none, else _pgroup_reserve(pg, size).
smalloc2_reserve(size) ==
    /\ pc = "idle"
    /\ ncalls < MaxCalls
    /\ ready
    /\ ncalls' = ncalls + 1
    /\ LET pg   == FirstFit(pglist, size, groups)
           need == _pages_alloc(size, SMALLOC_SMALLEST_PAGE_GROUP, pagesize).len
           call == [NoOp EXCEPT !.name = "smalloc2", !.size = size,
                                !.supply = (MmapBases(mapped, need) # {})]
       IN  IF pg = NULL
           THEN /\ ret' = NULL
                /\ op' = [call EXCEPT !.fit = "nofit"]
                /\ UNCHANGED <<ready, pagesize, head, pglist, mapped, blocks,
                               groups, chunks, pc, pa, allocs>>
           ELSE LET g     == groups[pg]
                    chunk == g.top
                    step  == Add(size, CHUNK_HDR)
                    g1    == [g EXCEPT !.top = Add(g.top, step),
                                       !.bytesfree = Sub(g.bytesfree, step)]
                    hdr   == [ptr |-> ChunkPtrAdd(chunk, CHUNK_HDR), len |-> size,
                              freed |-> 0, next |-> NULL]
                    ch1   == Store(chunks, chunk, hdr)
                    last  == LastChunk(g.chunks, ch1, Cardinality(DOMAIN ch1))
                IN  /\ groups' = [groups EXCEPT ![pg] = g1]
                    /\ op' = [call EXCEPT !.fit = "found"]
                    /\ IF ~IsMapped(mapped, chunk, CHUNK_HDR)
                       THEN \* the chunk header lies outside every mapping
                            /\ pc' = "crashed"
                            /\ UNCHANGED <<chunks, blocks, ret, allocs>>
                       ELSE IF last = -1
                       THEN \* while (clist->next) never ends
                            /\ pc' = "hang"
                            /\ chunks' = ch1
                            /\ blocks' = Clobber(blocks, chunk, CHUNK_HDR)
                            /\ UNCHANGED <<ret, allocs>>
                       ELSE /\ chunks' = [ch1 EXCEPT ![last].next = chunk]
                            /\ blocks' = Clobber(blocks, chunk, CHUNK_HDR)
                            /\ ret' = hdr.ptr
                            /\ allocs' = Append(allocs,
                                   [by |-> "smalloc2", ptr |-> hdr.ptr, size |-> size,
                                    hdr |-> chunk, base |-> pg, len |-> mapped[pg]])
                            /\ pc' = pc
                    /\ UNCHANGED <<ready, pagesize, head, pglist, mapped, pa>>

\* ---------------------------------------------------------- _pgroup_cleanup
\* The body is `return -1;`: nothing is traversed, unlinked or released.
_pgroup_cleanup ==
    /\ pc = "idle"
    /\ ncalls < MaxCalls
    /\ ncalls' = ncalls + 1
    /\ ret' = -1
    /\ op' = [NoOp EXCEPT !.name = "cleanup"]
    /\ UNCHANGED <<ready, pagesize, head, pglist, mapped, blocks, groups,
                   chunks, pc, pa, allocs>>

Next ==
    \/ \E size \in SmallocSizes : smalloc(size)
    \/ \E size \in Smalloc2Sizes : smalloc2_init(size)
    \/ \E size \in Smalloc2Sizes : smalloc2_reserve(size)
    \/ _pgroup_cleanup

Spec == Init /\ [][Next]_vars

\* ------------------------------------------------------ derived quantities
Max(a, b) == IF a >= b THEN a ELSE b
CeilDiv(a, b) == (a + b - 1) \div b

\* the chunk list of a group from chunk c on, in list order
RECURSIVE ChunkSeq(_, _, _)
ChunkSeq(c, ch, fuel) ==
    IF c = NULL \/ fuel = 0 THEN <<>>
    ELSE <<c>> \o ChunkSeq(ch[c].next, ch, fuel - 1)

GroupChunks(g) == ChunkSeq(groups[g].chunks, chunks, Cardinality(DOMAIN chunks))

RECURSIVE SumSeq(_)
SumSeq(q) == IF q = <<>> THEN 0 ELSE Head(q) + SumSeq(Tail(q))

\* bytes taken by the chunks of group g: header plus len each
ChunkBytes(g) ==
    SumSeq([i \in DOMAIN GroupChunks(g) |-> chunks[GroupChunks(g)[i]].len + CHUNK_HDR])

\* end of the memory mapped for group g
GroupEnd(g) == g + mapped[g]

\* two returned ranges [p, p + size) share a byte
Overlap(a, b) ==
    /\ a.size > 0
    /\ b.size > 0
    /\ a.ptr < b.ptr + b.size
    /\ b.ptr < a.ptr + a.size

\* ------------------------------------------------------------------ claims

\* C1: no two returned memory ranges [p, p+size) overlap, for every sequence
\* of smalloc and smalloc2 calls.
C1_NoOverlap ==
    \A i, j \in DOMAIN allocs : i < j => ~Overlap(allocs[i], allocs[j])

\* C2: every returned pointer designates size bytes that lie inside the
\* memory mapped for the allocation (the block, or the owning page group).
C2_RegionInsideMapping ==
    \A i \in DOMAIN allocs :
        /\ allocs[i].ptr >= allocs[i].base
        /\ allocs[i].ptr + allocs[i].size <= allocs[i].base + allocs[i].len

\* C3: when mmap returns MAP_FAILED the call returns NULL and nothing is
\* read or written through the failed result.
C3_MapFailurePropagated ==
    op.mm = "failed" => (pc = "idle" /\ ret = NULL /\ ~op.badwrite)

\* C4: a smalloc2 request that no group of an initialized chain fits, while
\* the Page Source can supply the pages, is served from a new group with a
\* non-NULL pointer.
C4_NoFitMakesNewGroup ==
    (op.name = "smalloc2" /\ op.fit = "nofit" /\ pglist # NULL /\ op.supply)
        => (pc = "idle" /\ ret # NULL)

\* C5: _pages_alloc(size, pcount) maps exactly
\* max(pcount, ceil((size + group header + chunk header) / page size)) pages.
C5_MinimalPageCount ==
    pa.called =>
        pa.npages = Max(pa.pcount, CeilDiv(pa.size + PGROUP_HDR + CHUNK_HDR, PAGE_SIZE))

\* C6: a smalloc call whose mapping the Page Source does not decline returns
\* a non-NULL pointer, whatever calls and sizes came before it.
C6_SmallocSucceeds ==
    (op.name = "smalloc" /\ op.mm # "failed") => (pc = "idle" /\ ret # NULL)

\* C6 witness: a third successful smalloc in a row, the mapping granted.
C6_Witness ==
    /\ op.name = "smalloc"
    /\ op.mm = "granted"
    /\ ret # NULL
    /\ Len(allocs) >= 3
    /\ \A i \in DOMAIN allocs : allocs[i].by = "smalloc"

\* C7: _pgroup_cleanup returns 0 and leaves in the chain only groups that
\* still have a chunk in use.
C7_CleanupReleasesIdleGroups ==
    op.name = "cleanup" =>
        /\ ret = 0
        /\ \A g \in DOMAIN groups :
              \E i \in DOMAIN GroupChunks(g) : chunks[GroupChunks(g)[i]].freed = 0

\* C8: the bump cursor and every carved chunk (header plus usable bytes)
\* stay inside the memory mapped for the group.
C8_CursorInsideGroup ==
    \A g \in DOMAIN groups :
        /\ groups[g].top <= GroupEnd(g)
        /\ \A i \in DOMAIN GroupChunks(g) :
              GroupChunks(g)[i] + CHUNK_HDR + chunks[GroupChunks(g)[i]].len <= GroupEnd(g)

\* C9: bytesfree equals npages * page size minus the group header minus the
\* bytes (len + chunk header) of all chunks of the group.
C9_BytesFreeAccounting ==
    \A g \in DOMAIN groups :
        groups[g].bytesfree =
            groups[g].npages * PAGE_SIZE - PGROUP_HDR - ChunkBytes(g)

\* C10: the pointer smalloc2 returns is the chunk header's address plus the
\* byte size of the header.
C10_PtrFollowsHeader ==
    \A i \in DOMAIN allocs :
        allocs[i].by = "smalloc2" => allocs[i].ptr = allocs[i].hdr + CHUNK_HDR

\* the block list rooted at list node n (its next pointers), in list order
RECURSIVE BlockSeq(_, _, _)
BlockSeq(n, bl, fuel) ==
    IF n = NULL \/ n \notin DOMAIN bl \/ fuel = 0 THEN <<>>
    ELSE <<n>> \o BlockSeq(bl[n].next, bl, fuel - 1)

\* the blocks smalloc has handed out, in allocation order
RECURSIVE SmallocBlocks(_)
SmallocBlocks(q) ==
    IF q = <<>> THEN <<>>
    ELSE (IF Head(q).by = "smalloc" THEN <<Head(q).hdr>> ELSE <<>>)
             \o SmallocBlocks(Tail(q))

\* the byte ranges [a, a + n) and [b, b + m) share a byte
RangesMeet(a, n, b, m) == n > 0 /\ m > 0 /\ a < b + m /\ b < a + n

\* C11: while the allocator runs, the chunks of each group tile its memory
\* from the first byte after the group header up to top: the sum of
\* (len + chunk header size) over the chunk list equals top minus the start
\* of the chunk area.
C11_ChunksTileGroup ==
    pc = "idle" =>
        \A g \in DOMAIN groups :
            ChunkBytes(g) = groups[g].top - (g + PGROUP_HDR)

\* C12: every length smalloc hands to the Page Source is a positive multiple
\* of the page size and the smallest one that is at least
\* size + sizeof(block header).
C12_BlockLengthRounded ==
    (op.name = "smalloc" /\ op.mm # "none") =>
        /\ op.len > 0
        /\ op.len % PAGE_SIZE = 0
        /\ op.len >= op.size + BLOCK_HDR
        /\ op.len - PAGE_SIZE < op.size + BLOCK_HDR

\* C13: every page group's lenbytes is npages * page size minus the size of
\* the page-group header.
C13_LenBytesIsCapacity ==
    \A g \in DOMAIN groups :
        groups[g].lenbytes = groups[g].npages * PAGE_SIZE - PGROUP_HDR

\* C14: no chunk header written by a later smalloc2 call lies inside a
\* region [p, p + size) that an earlier smalloc2 call returned.
C14_LiveRegionsUntouched ==
    \A i, j \in DOMAIN allocs :
        (i < j /\ allocs[i].by = "smalloc2" /\ allocs[j].by = "smalloc2") =>
            ~RangesMeet(allocs[j].hdr, CHUNK_HDR, allocs[i].ptr, allocs[i].size)

\* C15: whenever the allocator is marked ready, the page-group chain head is
\* non-NULL.
C15_ReadyHasChain ==
    ready => pglist # NULL

\* C16: the block list rooted at _info.head holds exactly the blocks smalloc
\* has handed out, in allocation order.
C16_BlockListComplete ==
    pc = "idle" =>
        BlockSeq(head.next, blocks, Cardinality(DOMAIN blocks)) = SmallocBlocks(allocs)

====
